---- MODULE Spec2Model ----
(***************************************************************************)
(* Model of pocket_dedupe.py: URL normalisation (strip_url and the marker  *)
(* loop), the duplicate scan (queue_dedupe_actions) and the script's run   *)
(* (authenticate, scan, confirmation prompt, commit).                      *)
(*                                                                         *)
(* Python strings are modelled as sequences of one-character strings, so   *)
(* that substring search and slicing are computed, not assumed.            *)
(***************************************************************************)
EXTENDS Integers, Sequences, FiniteSets, TLC

VARIABLES
    pc,                    \* position of the running code
    caller,                \* "main": script run; "import": function called by an importer; "none": loop harness
    PocketInstance,        \* the module-level binding PocketInstance (line 164), or Unbound
    pocket_instance,       \* the parameter of queue_dedupe_actions (line 102), or Unbound
    items_list,            \* response_output["list"], in iteration order (line 128)
    visited,               \* number of items the for loop of line 134 has taken
    article_cache,         \* line 132
    bulk_query,            \* per client object: the actions queued by delete()
    sent,                  \* per client object: the batches sent by commit()
    entered,               \* the raw text read by input() at line 167
    user_input,            \* line 167, after .strip()
    console,               \* what print() has written, in order
    steps,                 \* history: the calls made on collaborators, in order
    raised,                \* the uncaught exception that ended the run, or "none"
    original_article_url,  \* line 138
    article_url,           \* line 137, rewritten by the loop of lines 140-142
    param_i,               \* number of STRIP_PARAMETERS the loop of line 140 has taken
    strip_result           \* the value of a direct strip_url(url, char) call

vars == <<pc, caller, PocketInstance, pocket_instance, items_list, visited,
          article_cache, bulk_query, sent, entered, user_input, console, steps,
          raised, original_article_url, article_url, param_i, strip_result>>

scanVars == <<caller, PocketInstance, pocket_instance, items_list, visited,
              article_cache, bulk_query, sent, entered, user_input, console,
              steps, raised>>

----------------------------------------------------------------------------
(* Bounds                                                                  *)

MaxSegs == 3          \* URL of the normalisation harness: at most this many segments
MaxArticles == 3      \* fetched list: at most this many articles
MaxInput == 2         \* text typed at the prompt: at most this many characters

----------------------------------------------------------------------------
(* Strings                                                                 *)

STRIP_PARAMETERS ==
    << <<"?", "u", "t", "m">>,
       <<"&", "u", "t", "m">>,
       <<"?", "C", "M", "P">>,
       <<"&", "C", "M", "P">> >>

ValueError == -1

\* s occurs in url at 0-based position i (Python slicing url[i:i+len(s)] == s)
OccursAt(url, s, i) ==
    /\ i >= 0
    /\ i + Len(s) <= Len(url)
    /\ SubSeq(url, i + 1, i + Len(s)) = s

\* Python: param in article_url
Contains(url, s) == \E i \in 0..Len(url) : OccursAt(url, s, i)

\* Python: url.index(char), the lowest position, or ValueError raised
RECURSIVE IndexFrom(_, _, _)
IndexFrom(url, char, i) ==
    IF i + Len(char) > Len(url) THEN ValueError
    ELSE IF SubSeq(url, i + 1, i + Len(char)) = char THEN i
    ELSE IndexFrom(url, char, i + 1)

index(url, char) == IndexFrom(url, char, 0)

\* Python: url[:n]
Slice(url, n) == SubSeq(url, 1, n)

strip_url_last(url, char) ==
    IF ~Contains(url, char) THEN url
    ELSE Slice(url, CHOOSE i \in 0..Len(url) :
                      /\ OccursAt(url, char, i)
                      /\ \A j \in 0..Len(url) : OccursAt(url, char, j) => j <= i)

strip_url_keep(url, char) ==
    IF index(url, char) = ValueError THEN url
    ELSE Slice(url, index(url, char) + Len(char))

strip_url_noexcept(url, char) ==
    IF index(url, char) = ValueError THEN <<"ValueError">>
    ELSE Slice(url, index(url, char))

strip_url(url, char) ==
    IF index(url, char) = ValueError THEN url
    ELSE Slice(url, index(url, char))

\* one pass of the loop body of lines 140-142 for the marker param
StripParam(url, param) ==
    IF Contains(url, param) THEN strip_url(url, param) ELSE url

\* lines 140-142, from the k-th marker (1-based) on
RECURSIVE NormalizeFrom(_, _)
NormalizeFrom(url, k) ==
    IF k > Len(STRIP_PARAMETERS) THEN url
    ELSE NormalizeFrom(StripParam(url, STRIP_PARAMETERS[k]), k + 1)

NormalizeTwoMarkers(url) ==
    StripParam(StripParam(url, STRIP_PARAMETERS[1]), STRIP_PARAMETERS[2])

Normalize(url) == NormalizeFrom(url, 1)

\* Python: s.strip() for the whitespace the model's inputs hold
RECURSIVE LStrip(_)
LStrip(s) == IF s /= <<>> /\ Head(s) = " " THEN LStrip(Tail(s)) ELSE s

RECURSIVE RStrip(_)
RStrip(s) ==
    IF s /= <<>> /\ s[Len(s)] = " " THEN RStrip(SubSeq(s, 1, Len(s) - 1)) ELSE s

strip(s) == LStrip(RStrip(s))

----------------------------------------------------------------------------
(* Input domains                                                           *)

Segments ==
    { STRIP_PARAMETERS[k] : k \in 1..Len(STRIP_PARAMETERS) }
        \cup { <<"a">>, <<"?">>, <<"&">>, <<"u", "t", "m">> }

RECURSIVE UrlsOfSegs(_)
UrlsOfSegs(n) ==
    IF n = 0 THEN { <<>> }
    ELSE UrlsOfSegs(n - 1)
            \cup { u \o s : u \in UrlsOfSegs(n - 1), s \in Segments }

Urls == UrlsOfSegs(MaxSegs)


Pool ==
    { <<"x">>,
      <<"x", "?", "u", "t", "m">>,
      <<"x", "&", "C", "M", "P", "?", "u", "t", "m">>,
      <<"y">> }

\* the list of the scenario of the specification's section 8
ScenarioList ==
    << [item_id |-> 1,
        given_url |-> <<"h", "t", "t", "p", "s", ":", "/", "/", "a", ".", "c", "o", "m", "/", "x", "?", "u", "t", "m", "=", "1">>],
       [item_id |-> 2,
        given_url |-> <<"h", "t", "t", "p", "s", ":", "/", "/", "a", ".", "c", "o", "m", "/", "x">>],
       [item_id |-> 3,
        given_url |-> <<"h", "t", "t", "p", "s", ":", "/", "/", "b", ".", "c", "o", "m", "/", "y">>] >>

\* item ids are the keys of the response's dict, hence distinct; they need
\* not follow the list order
IdSchemes(n) == { [i \in 1..n |-> i], [i \in 1..n |-> n + 1 - i] }

ArticleLists ==
    { ScenarioList } \cup
    UNION { { [i \in 1..n |-> [item_id |-> ids[i], given_url |-> urls[i]]] :
                ids \in IdSchemes(n), urls \in [1..n -> Pool] } :
            n \in 0..MaxArticles }

InputChars == { "y", "Y", "n", " " }

RECURSIVE InputsOfLen(_)
InputsOfLen(n) ==
    IF n = 0 THEN { <<>> }
    ELSE InputsOfLen(n - 1)
            \cup { s \o <<c>> : s \in InputsOfLen(n - 1), c \in InputChars }

Inputs == InputsOfLen(MaxInput)

Clients == { "p1", "p2" }       \* Pocket objects
Unbound == "Unbound"            \* a name with no binding
NewPocket == "p1"               \* the object line 83 constructs in the script's run

----------------------------------------------------------------------------
(* Helpers of the scan                                                     *)

Line(kind, item, text) == [kind |-> kind, item |-> item, text |-> text]

NotInCache(url, cache) == ~(\E k \in 1..Len(cache) : cache[k] = url)

\* line 146: article_url in article_cache
InCache(url, cache) == \E k \in 1..Len(cache) : cache[k] = url

IsTrackedAlways(url, original) == TRUE

\* line 154: article_url != original_article_url
IsTracked(url, original) == url /= original

CacheAfterNoContinue(cache, url) == Append(cache, url)

\* lines 146-157: the cache after one iteration (continue at 149, append at 157)
CacheAfter(cache, url) ==
    IF InCache(url, cache) THEN cache ELSE Append(cache, url)

ConfirmedAnyCase(text) == text \in { <<"y">>, <<"Y">> }

\* line 169: user_input == "y"
Confirmed(text) == text = <<"y">>

----------------------------------------------------------------------------
(* The script: lines 162-175                                               *)

NoQueues == [c \in Clients |-> <<>>]

Init ==
    /\ pc = "main"
    /\ caller = "main"
    /\ PocketInstance = Unbound
    /\ pocket_instance = Unbound
    /\ items_list = <<>>
    /\ visited = 0
    /\ article_cache = <<>>
    /\ bulk_query = NoQueues
    /\ sent = NoQueues
    /\ entered = <<>>
    /\ user_input = <<>>
    /\ console = <<>>
    /\ steps = <<>>
    /\ raised = "none"
    /\ original_article_url = <<>>
    /\ article_url = <<>>
    /\ param_i = 0
    /\ strip_result = [char |-> <<>>, value |-> <<>>]

normVars == <<original_article_url, article_url, param_i, strip_result>>

\* line 164: PocketInstance = get_pocket_instance()
GetPocketInstance ==
    /\ pc = "main"
    /\ PocketInstance' = NewPocket
    /\ steps' = Append(steps, "authenticate")
    /\ pc' = "call"
    /\ UNCHANGED <<caller, pocket_instance, items_list, visited, article_cache,
                   bulk_query, sent, entered, user_input, console, raised>>
    /\ UNCHANGED normVars

\* lines 44-83: a request of the authentication fails; nothing catches it
AuthenticateFails ==
    /\ pc = "main"
    /\ steps' = Append(steps, "authenticate")
    /\ raised' = "PocketException"
    /\ pc' = "error"
    /\ UNCHANGED <<caller, PocketInstance, pocket_instance, items_list, visited,
                   article_cache, bulk_query, sent, entered, user_input, console>>
    /\ UNCHANGED normVars

\* line 165: queue_dedupe_actions(PocketInstance)
CallScan ==
    /\ pc = "call"
    /\ pocket_instance' = PocketInstance
    /\ pc' = "fetch"
    /\ UNCHANGED <<caller, PocketInstance, items_list, visited, article_cache,
                   bulk_query, sent, entered, user_input, console, steps, raised>>
    /\ UNCHANGED normVars

\* lines 120-132: the fetch on the parameter, the count, the empty cache
Fetch ==
    /\ pc = "fetch"
    /\ \E l \in ArticleLists :
         /\ items_list' = l
         /\ console' = Append(console, Line("found", Len(l), <<>>))
    /\ steps' = Append(steps, "get")
    /\ visited' = 0
    /\ article_cache' = <<>>
    /\ pc' = "scan"
    /\ UNCHANGED <<caller, PocketInstance, pocket_instance, bulk_query, sent,
                   entered, user_input, raised>>
    /\ UNCHANGED normVars

\* line 120: the fetch fails; nothing catches it
FetchFails ==
    /\ pc = "fetch"
    /\ steps' = Append(steps, "get")
    /\ raised' = "PocketException"
    /\ pc' = "error"
    /\ UNCHANGED <<caller, PocketInstance, pocket_instance, items_list, visited,
                   article_cache, bulk_query, sent, entered, user_input, console>>
    /\ UNCHANGED normVars

\* lines 134-157: one iteration of the for loop
ScanItem ==
    /\ pc = "scan"
    /\ visited < Len(items_list)
    /\ LET item == items_list[visited + 1]
           article_id == item.item_id
           original == item.given_url
           url == Normalize(original)
       IN  IF InCache(url, article_cache)
           THEN /\ console' = Append(console, Line("duplicate", visited + 1, original))
                /\ IF PocketInstance = Unbound
                   THEN \* line 148: the global name has no binding
                        /\ raised' = "NameError"
                        /\ pc' = "error"
                        /\ UNCHANGED <<bulk_query, steps>>
                   ELSE /\ bulk_query' =
                              [bulk_query EXCEPT ![PocketInstance] =
                                  Append(@, [action |-> "delete", item_id |-> article_id])]
                        /\ steps' = Append(steps, "delete")
                        /\ UNCHANGED <<raised, pc>>
                /\ article_cache' = CacheAfter(article_cache, url)
           ELSE /\ console' =
                      IF IsTracked(url, original)
                      THEN Append(console, Line("tracked", visited + 1, original))
                      ELSE console
                /\ article_cache' = CacheAfter(article_cache, url)
                /\ UNCHANGED <<bulk_query, steps, raised, pc>>
    /\ visited' = visited + 1
    /\ UNCHANGED <<caller, PocketInstance, pocket_instance, items_list, sent,
                   entered, user_input>>
    /\ UNCHANGED normVars

\* the loop of line 134 is exhausted; the function returns to line 167
ReturnToMain ==
    /\ pc = "scan"
    /\ caller = "main"
    /\ visited = Len(items_list)
    /\ pc' = "prompt"
    /\ UNCHANGED scanVars
    /\ UNCHANGED normVars

\* line 167: input(...).strip()
Prompt ==
    /\ pc = "prompt"
    /\ \E text \in Inputs :
         /\ entered' = text
         /\ user_input' = strip(text)
    /\ steps' = Append(steps, "prompt")
    /\ pc' = "decide"
    /\ UNCHANGED <<caller, PocketInstance, pocket_instance, items_list, visited,
                   article_cache, bulk_query, sent, console, raised>>
    /\ UNCHANGED normVars

CommitBeforePrompt ==
    /\ pc = "prompt"
    /\ sent' = [sent EXCEPT ![PocketInstance] = Append(@, bulk_query[PocketInstance])]
    /\ bulk_query' = [bulk_query EXCEPT ![PocketInstance] = <<>>]
    /\ steps' = Append(steps, "commit")
    /\ console' = Append(console, Line("sent", 0, <<>>))
    /\ pc' = "finish"
    /\ UNCHANGED <<caller, PocketInstance, pocket_instance, items_list, visited,
                   article_cache, entered, user_input, raised>>
    /\ UNCHANGED normVars

\* lines 169-171: the queued actions go out as one request
Commit ==
    /\ pc = "decide"
    /\ Confirmed(user_input)
    /\ sent' = [sent EXCEPT ![PocketInstance] = Append(@, bulk_query[PocketInstance])]
    /\ bulk_query' = [bulk_query EXCEPT ![PocketInstance] = <<>>]
    /\ steps' = Append(steps, "commit")
    /\ console' = Append(console, Line("sent", 0, <<>>))
    /\ pc' = "finish"
    /\ UNCHANGED <<caller, PocketInstance, pocket_instance, items_list, visited,
                   article_cache, entered, user_input, raised>>
    /\ UNCHANGED normVars

\* line 170: the request fails; nothing catches it
CommitFails ==
    /\ pc = "decide"
    /\ Confirmed(user_input)
    /\ steps' = Append(steps, "commit")
    /\ raised' = "PocketException"
    /\ pc' = "error"
    /\ UNCHANGED <<caller, PocketInstance, pocket_instance, items_list, visited,
                   article_cache, bulk_query, sent, entered, user_input, console>>
    /\ UNCHANGED normVars

\* lines 172-173
Decline ==
    /\ pc = "decide"
    /\ ~Confirmed(user_input)
    /\ console' = Append(console, Line("not sent", 0, user_input))
    /\ pc' = "finish"
    /\ UNCHANGED <<caller, PocketInstance, pocket_instance, items_list, visited,
                   article_cache, bulk_query, sent, entered, user_input, steps, raised>>
    /\ UNCHANGED normVars

\* line 175
Finish ==
    /\ pc = "finish"
    /\ console' = Append(console, Line("finished", 0, <<>>))
    /\ pc' = "done"
    /\ UNCHANGED <<caller, PocketInstance, pocket_instance, items_list, visited,
                   article_cache, bulk_query, sent, entered, user_input, steps, raised>>
    /\ UNCHANGED normVars

Next ==
    \/ GetPocketInstance
    \/ AuthenticateFails
    \/ CallScan
    \/ Fetch
    \/ FetchFails
    \/ ScanItem
    \/ ReturnToMain
    \/ Prompt
    \/ Commit
    \/ CommitFails
    \/ Decline
    \/ Finish

Spec == Init /\ [][Next]_vars

----------------------------------------------------------------------------
(* queue_dedupe_actions called by code that imports the module: the        *)
(* argument and the module-level name PocketInstance are the caller's      *)
(* choice, and the name may have no binding (lines 162-164 did not run)    *)

InitCall ==
    /\ pc = "fetch"
    /\ caller = "import"
    /\ PocketInstance \in Clients \cup { Unbound }
    /\ pocket_instance \in Clients
    /\ items_list = <<>>
    /\ visited = 0
    /\ article_cache = <<>>
    /\ bulk_query = NoQueues
    /\ sent = NoQueues
    /\ entered = <<>>
    /\ user_input = <<>>
    /\ console = <<>>
    /\ steps = <<>>
    /\ raised = "none"
    /\ original_article_url = <<>>
    /\ article_url = <<>>
    /\ param_i = 0
    /\ strip_result = [char |-> <<>>, value |-> <<>>]

\* the loop of line 134 is exhausted; the function returns None to its caller
ReturnToCaller ==
    /\ pc = "scan"
    /\ caller = "import"
    /\ visited = Len(items_list)
    /\ pc' = "returned"
    /\ UNCHANGED scanVars
    /\ UNCHANGED normVars

NextCall ==
    \/ Fetch
    \/ FetchFails
    \/ ScanItem
    \/ ReturnToCaller

SpecCall == InitCall /\ [][NextCall]_vars

----------------------------------------------------------------------------
(* The normalisation of one URL, marker by marker (lines 137-142), and a   *)
(* direct call of strip_url (lines 86-99)                                  *)

InitNorm ==
    /\ pc = "strip_loop"
    /\ caller = "none"
    /\ PocketInstance = Unbound
    /\ pocket_instance = Unbound
    /\ items_list = <<>>
    /\ visited = 0
    /\ article_cache = <<>>
    /\ bulk_query = NoQueues
    /\ sent = NoQueues
    /\ entered = <<>>
    /\ user_input = <<>>
    /\ console = <<>>
    /\ steps = <<>>
    /\ raised = "none"
    /\ original_article_url \in Urls
    /\ article_url = original_article_url
    /\ param_i = 0
    /\ strip_result = [char |-> <<>>, value |-> <<>>]

\* lines 140-142: the loop body for the next marker
StripNextParam ==
    /\ pc = "strip_loop"
    /\ param_i < Len(STRIP_PARAMETERS)
    /\ article_url' = StripParam(article_url, STRIP_PARAMETERS[param_i + 1])
    /\ param_i' = param_i + 1
    /\ pc' = IF param_i + 1 = Len(STRIP_PARAMETERS) THEN "normalized" ELSE pc
    /\ UNCHANGED <<original_article_url, strip_result>>
    /\ UNCHANGED scanVars

\* lines 86-99: strip_url(url, char) called on the URL for any marker
StripUrlCall ==
    /\ pc = "normalized"
    /\ \E k \in 1..Len(STRIP_PARAMETERS) :
         strip_result' = [char |-> STRIP_PARAMETERS[k],
                          value |-> strip_url(original_article_url, STRIP_PARAMETERS[k])]
    /\ pc' = "stripped"
    /\ UNCHANGED <<original_article_url, article_url, param_i>>
    /\ UNCHANGED scanVars

NextNorm ==
    \/ StripNextParam
    \/ StripUrlCall

SpecNorm == InitNorm /\ [][NextNorm]_vars

----------------------------------------------------------------------------
(* Vocabulary of the properties, defined without the operators of the      *)
(* model of the code                                                       *)

MarkerSet == { STRIP_PARAMETERS[k] : k \in 1..Len(STRIP_PARAMETERS) }

\* the positions (0-based) at which s starts in url
Occurrences(url, s) ==
    { i \in 0..Len(url) :
        /\ i + Len(s) <= Len(url)
        /\ \A d \in 1..Len(s) : url[i + d] = s[d] }

SetMin(S) == CHOOSE i \in S : \A j \in S : i <= j

MarkerPositions(url) == UNION { Occurrences(url, m) : m \in MarkerSet }

HasMarker(url) == MarkerPositions(url) /= {}

Prefix(url, n) == [i \in 1..n |-> url[i]]

\* the URL cut right before the first occurrence of the marker m
CutBefore(url, m) == Prefix(url, SetMin(Occurrences(url, m)))

\* the URL cut at the earliest position at which any marker occurs
TruncatedAtEarliest(url) ==
    IF HasMarker(url) THEN Prefix(url, SetMin(MarkerPositions(url))) ELSE url

LoopFinished == pc \in { "normalized", "stripped" }

\* t is s without its leading and trailing blanks
IsTrimOf(t, s) ==
    /\ t = <<>> \/ (t[1] /= " " /\ t[Len(t)] /= " ")
    /\ \E i \in 0..Len(s) :
         /\ i + Len(t) <= Len(s)
         /\ \A d \in 1..Len(t) : s[i + d] = t[d]
         /\ \A k \in 1..Len(s) : (k <= i \/ k > i + Len(t)) => s[k] = " "

RECURSIVE Flatten(_)
Flatten(batches) ==
    IF batches = <<>> THEN <<>> ELSE Head(batches) \o Flatten(Tail(batches))

\* every action ever queued on the client c, sent or not
AllQueued(c) == Flatten(sent[c]) \o bulk_query[c]

\* the (client, position) pairs that hold a queued action
Queued == UNION { { <<c, k>> : k \in 1..Len(AllQueued(c)) } : c \in Clients }

QueuedAction(e) == AllQueued(e[1])[e[2]]

QueuedIds == { QueuedAction(e).item_id : e \in Queued }

NormOf(i) == TruncatedAtEarliest(items_list[i].given_url)

\* the positions among the first n whose normalized URL occurred earlier
DupPositions(n) ==
    { i \in 1..n : \E j \in 1..(i - 1) : NormOf(j) = NormOf(i) }

Printed(kind, i) ==
    \E k \in 1..Len(console) : console[k].kind = kind /\ console[k].item = i

HasStep(s) == \E k \in 1..Len(steps) : steps[k] = s

CountStep(s) == Cardinality({ k \in 1..Len(steps) : steps[k] = s })

----------------------------------------------------------------------------
(* Properties of the normalisation (checked under SpecNorm)                *)

\* C4, as stated: for a URL that contains a marker, the normalized URL is a
\* strict and non-empty prefix of the URL that ends right before the first
\* occurrence of a marker the URL contains.
C4_AsStated ==
    (LoopFinished /\ HasMarker(original_article_url)) =>
        /\ \E m \in MarkerSet :
             /\ Occurrences(original_article_url, m) /= {}
             /\ article_url = CutBefore(original_article_url, m)
        /\ Len(article_url) < Len(original_article_url)
        /\ article_url /= <<>>

\* C4, amended: for a URL that contains a marker, the normalized URL is a
\* strict prefix of the URL that ends right before the first occurrence of a
\* marker the URL contains; it is empty exactly when the URL begins with a
\* marker.
C4_StrictPrefixBeforeMarker ==
    (LoopFinished /\ HasMarker(original_article_url)) =>
        /\ \E m \in MarkerSet :
             /\ Occurrences(original_article_url, m) /= {}
             /\ article_url = CutBefore(original_article_url, m)
        /\ Len(article_url) < Len(original_article_url)
        /\ (article_url = <<>>) <=> (0 \in MarkerPositions(original_article_url))

C4_Witness ==
    /\ pc = "normalized"
    /\ Cardinality({ m \in MarkerSet : Occurrences(original_article_url, m) /= {} }) = 1
    /\ article_url /= <<>>
    /\ Len(article_url) < Len(original_article_url)

\* C5: when the marker loop has run, the normalized URL is the original URL
\* cut at the earliest position at which any marker occurs in it (the
\* original URL itself when none occurs), whatever markers occur and in
\* whatever order.
C5_CutAtEarliestMarker ==
    LoopFinished => article_url = TruncatedAtEarliest(original_article_url)

\* two different markers occur, the one later in STRIP_PARAMETERS first
C5_Witness ==
    /\ pc = "normalized"
    /\ \E k1, k2 \in 1..Len(STRIP_PARAMETERS) :
         /\ k1 < k2
         /\ Occurrences(original_article_url, STRIP_PARAMETERS[k1]) /= {}
         /\ Occurrences(original_article_url, STRIP_PARAMETERS[k2]) /= {}
         /\ SetMin(Occurrences(original_article_url, STRIP_PARAMETERS[k2]))
              < SetMin(Occurrences(original_article_url, STRIP_PARAMETERS[k1]))
    /\ article_url /= <<>>

\* C6: a URL that contains no marker is normalized to itself, and strip_url
\* called with a marker the URL does not contain returns the URL (no error
\* value, no exception).
C6_IdentityWithoutMarker ==
    /\ (LoopFinished /\ ~HasMarker(original_article_url)) =>
          article_url = original_article_url
    /\ (pc = "stripped" /\ Occurrences(original_article_url, strip_result.char) = {}) =>
          strip_result.value = original_article_url

C6_Witness ==
    /\ pc = "stripped"
    /\ ~HasMarker(original_article_url)
    /\ Len(original_article_url) >= 3
    /\ article_url = original_article_url
    /\ strip_result.value = original_article_url

----------------------------------------------------------------------------
(* Properties of the scan and of the run (checked under Spec)              *)

\* C1: after any number of visited articles, the ids with a queued delete
\* are exactly the ids of the visited articles whose normalized URL equals
\* that of an earlier article of the list; every queued action is a delete
\* and no id is queued twice.
C1_DeletesAreExactlyLaterDuplicates ==
    /\ QueuedIds = { items_list[i].item_id : i \in DupPositions(visited) }
    /\ \A e \in Queued : QueuedAction(e).action = "delete"
    /\ \A e1, e2 \in Queued :
         QueuedAction(e1).item_id = QueuedAction(e2).item_id => e1 = e2

C1_Witness ==
    /\ pc = "prompt"
    /\ Len(items_list) = 3
    /\ DupPositions(3) = { 2 }
    /\ items_list[1].given_url /= items_list[2].given_url
    /\ QueuedIds = { items_list[2].item_id }

\* C2: the first article of every group of articles with the same normalized
\* URL never has a delete queued.
C2_FirstOfGroupIsKept ==
    \A i \in 1..Len(items_list) :
        (\A j \in 1..(i - 1) : NormOf(j) /= NormOf(i)) =>
            items_list[i].item_id \notin QueuedIds

\* a group of three: the first is kept, the other two are queued
C2_Witness ==
    /\ pc = "prompt"
    /\ Len(items_list) = 3
    /\ NormOf(1) = NormOf(2)
    /\ NormOf(1) = NormOf(3)
    /\ QueuedIds = { items_list[2].item_id, items_list[3].item_id }
    /\ items_list[1].item_id \notin QueuedIds

Decided == pc \in { "finish", "done" } \/ (pc = "error" /\ HasStep("prompt"))

\* C3, as stated: commit is called if and only if the entered text is
\* exactly "y"; otherwise the entered text is reported and the run goes on
\* to its end without an exception.
C3_AsStated ==
    Decided =>
        /\ HasStep("commit") <=> (entered = <<"y">>)
        /\ entered /= <<"y">> =>
             /\ raised = "none"
             /\ \E k \in 1..Len(console) :
                  console[k].kind = "not sent" /\ console[k].text = entered

\* C3, amended: commit is called if and only if the entered text, with its
\* leading and trailing blanks removed, is exactly "y"; otherwise that
\* trimmed text is reported and the run goes on to its end without an
\* exception.
C3_CommitIffTrimmedInputIsY ==
    Decided =>
        /\ HasStep("commit") <=> IsTrimOf(<<"y">>, entered)
        /\ ~IsTrimOf(<<"y">>, entered) =>
             /\ raised = "none"
             /\ pc \in { "finish", "done" }
             /\ pc = "finish" => ENABLED Finish
             /\ \E k \in 1..Len(console) :
                  console[k].kind = "not sent" /\ IsTrimOf(console[k].text, entered)

C3_Witness ==
    /\ pc = "done"
    /\ entered = <<" ", "y">>
    /\ HasStep("commit")
    /\ sent[PocketInstance] /= <<>>

\* C8: a visited article is reported as tracked if and only if it was not
\* reported as a duplicate and its normalized URL differs from its URL; a
\* tracked article has no delete queued and its normalized URL is in the
\* cache; no unvisited article is reported. For the scenario list, only
\* id 2 is queued and only id 1 is reported as tracked.
C8_TrackedIffKeptAndStripped ==
    /\ \A i \in 1..Len(items_list) :
         /\ Printed("tracked", i) <=>
              /\ i <= visited
              /\ ~Printed("duplicate", i)
              /\ NormOf(i) /= items_list[i].given_url
         /\ Printed("tracked", i) =>
              /\ items_list[i].item_id \notin QueuedIds
              /\ \E k \in 1..Len(article_cache) : article_cache[k] = NormOf(i)
    /\ \A k \in 1..Len(console) :
         console[k].kind \in { "tracked", "duplicate" } =>
             console[k].text = items_list[console[k].item].given_url
    /\ (items_list = ScenarioList /\ visited = 3) =>
         /\ QueuedIds = { 2 }
         /\ { i \in 1..3 : Printed("duplicate", i) } = { 2 }
         /\ { i \in 1..3 : Printed("tracked", i) } = { 1 }

C8_Witness ==
    /\ pc = "prompt"
    /\ items_list = ScenarioList
    /\ Printed("tracked", 1)
    /\ QueuedIds = { 2 }

StepRank(s) ==
    CASE s = "authenticate" -> 1
      [] s = "get" -> 2
      [] s = "delete" -> 3
      [] s = "prompt" -> 4
      [] s = "commit" -> 5

\* C9: the calls occur in the order authenticate, fetch, deletes, prompt,
\* commit; authenticate, fetch, prompt and commit occur at most once; a
\* delete is queued only after the fetch; the prompt comes only after every
\* article was visited and always comes once the scan has ended (also for
\* an empty list); commit comes only after the prompt.
C9_StepsInOrder ==
    /\ \A k \in 1..(Len(steps) - 1) : StepRank(steps[k]) <= StepRank(steps[k + 1])
    /\ \A s \in { "authenticate", "get", "prompt", "commit" } : CountStep(s) <= 1
    /\ (HasStep("delete") \/ Queued /= {}) => HasStep("get")
    /\ HasStep("get") => HasStep("authenticate")
    /\ HasStep("prompt") => (HasStep("get") /\ visited = Len(items_list))
    /\ HasStep("commit") => HasStep("prompt")
    /\ visited <= Len(items_list)
    /\ pc = "prompt" => (ENABLED Prompt /\ ~HasStep("prompt"))
    /\ pc \in { "decide", "finish", "done" } => CountStep("prompt") = 1
    /\ pc \in { "main", "call", "fetch", "scan", "prompt", "decide" } => ~HasStep("commit")

C9_Witness ==
    /\ pc = "done"
    /\ steps = <<"authenticate", "get", "delete", "delete", "prompt", "commit">>

C9_WitnessEmptyList ==
    /\ pc = "done"
    /\ items_list = <<>>
    /\ steps = <<"authenticate", "get", "prompt">>

TotalQueued == Cardinality(Queued)

NoRepeat(s) == \A a, b \in 1..Len(s) : s[a] = s[b] => a = b

CacheStep ==
    /\ Len(article_cache') >= Len(article_cache)
    /\ \A k \in 1..Len(article_cache) : article_cache'[k] = article_cache[k]
    /\ visited' = visited + 1 =>
         IF \E k \in 1..Len(article_cache) : article_cache[k] = NormOf(visited + 1)
         THEN article_cache' = article_cache
         ELSE article_cache' = Append(article_cache, NormOf(visited + 1))
    /\ visited' = visited => article_cache' = article_cache

CacheInv ==
    /\ NoRepeat(article_cache)
    /\ Len(article_cache) + TotalQueued = visited

\* C10: the cache never shrinks; a visit of a duplicate leaves it unchanged
\* and a visit of a non-duplicate appends its normalized URL; in every state
\* the cache holds no URL twice and its length plus the number of queued
\* deletes is the number of articles visited.
C10_CacheGrowsOnlyByNewUrls == []CacheInv /\ [][CacheStep]_vars

C10_Witness ==
    /\ pc = "prompt"
    /\ visited = 3
    /\ Len(article_cache) = 2
    /\ TotalQueued = 1

----------------------------------------------------------------------------
(* Property of the call from importing code (checked under SpecCall)       *)

\* C7: every delete queued by queue_dedupe_actions(p) is queued on p and on
\* no other client object.
C7_DeletesOnTheArgument ==
    \A c \in Clients : c /= pocket_instance => AllQueued(c) = <<>>

====
